---- MODULE Spec2Model ----
(***************************************************************************)
(* OAuth2 login (Google, Twitter with PKCE), session issuance, the         *)
(* authentication gate and logout of the Axum application, as a state      *)
(* machine over concurrent HTTP requests.                                  *)
(*                                                                         *)
(* One request is one task.  A request's pc names the await point it is    *)
(* suspended on; one action runs a handler from one await point to the     *)
(* next (or to its return).  The database and the OAuth provider are the   *)
(* environment: every statement and every provider call either succeeds    *)
(* or fails, chosen nondeterministically.                                  *)
(*                                                                         *)
(* Strings that the code builds or tests by content (session ids, e-mail   *)
(* addresses, access tokens) are sequences of one-character strings, so    *)
(* that format!() is concatenation and ends_with() is a suffix test.       *)
(* Option<T> is a sequence of length 0 (None) or 1 (Some).                 *)
(***************************************************************************)
EXTENDS Integers, Sequences, FiniteSets, TLC

VARIABLES
    build,        \* which of the two programs runs: "modular" (config/router.rs) or "main" (main.rs)
    now,          \* the clock, in seconds (Local::now() and the store's NOW())
    key,          \* AppState.key: the cookie key of the running process
    restarts,     \* number of process restarts so far
    accounts,     \* the e-mail addresses of the Google accounts that can authorize
    handles,      \* the usernames of the Twitter accounts that can authorize
    states,       \* the values of the `state` query parameter that callback URLs carry
    verifiers,    \* PkceVerifiers: the HashMap inside the mutex
    lockOwner,    \* the request that owns the PkceVerifiers mutex guard, 0 when free
    nextVerifier, \* the next value PkceCodeChallenge::new_random_sha256() yields
    attempts,     \* the Twitter authorizations begun: [id, verifier] of each redirect returned
    exchanges,    \* the token requests sent to Twitter: [req, attempt, verifier]
    users,        \* table users: rows [id, email, last_updated]
    sessions,     \* table sessions: rows [user_id, session_id, expires_at]
    issued,       \* session cookies sent to clients: [key, value], with the e-mail and the handler of the login
    reqs,         \* the requests in flight: id -> record
    last,         \* the request that returned last, with its response
    nextReq,      \* the id of the next request to arrive
    budget        \* number of requests the clients will still send

procVars == <<build, key, restarts, accounts, handles, states>>
clockVars == <<now>>
pkceVars == <<verifiers, lockOwner>>
twitterVars == <<nextVerifier, attempts, exchanges>>
dbVars == <<users, sessions>>

vars == <<procVars, clockVars, pkceVars, twitterVars, dbVars, issued, reqs, last,
          nextReq, budget>>

-----------------------------------------------------------------------------
(* Bounds of the model *)

PkceRequests == 4
SessionRequests == 3
GateRequests == 2
CallbackRequests == 2
LiveRequests == 3
RestartRequests == 2
TwitterRequests == 4
LogoutRequests == 3
StateRequests == 2
ReloginRequests == 4
ProviderRequests == 3
MaxInFlight == 2
MaxNow == 1
MaxRestarts == 1

(* Program constants *)

DefaultSecs == 3600
RemovalMaxAge == -1

-----------------------------------------------------------------------------
(* Strings *)

Colon == <<":">>
TwitterLocal == <<"@", "t", "w", "i", "t", "t", "e", "r", ".", "l", "o", "c", "a", "l">>
EmptyStr == <<>>

\* format!("{}:{}", email, token.access_token().secret())
SessionId(email, secret) == email \o Colon \o secret

\* TwitterEmail that leaves the characters '@' and '.' out of the username
TwitterEmailSanitized(username) ==
    SelectSeq(username, LAMBDA c : c \notin { "@", "." }) \o TwitterLocal

\* format!("{}@twitter.local", profile.data.username)
TwitterEmail(username) == username \o TwitterLocal

\* str::ends_with
EndsWith(s, suffix) ==
    /\ Len(s) >= Len(suffix)
    /\ SubSeq(s, Len(s) - Len(suffix) + 1, Len(s)) = suffix

\* protected, get_profile: if user.email.ends_with("@twitter.local") "Twitter" else "Google"
ProviderShown(email) == IF EndsWith(email, TwitterLocal) THEN "Twitter" ELSE "Google"

None == <<>>
Some(x) == <<x>>
IsSome(o) == o /= <<>>
Unwrap(o) == o[1]

-----------------------------------------------------------------------------
(* What the environment can send *)

\* e-mail addresses Google's userinfo endpoint returns
GoogleEmails == { <<"a">>, <<"a", ":", "b">> }
\* the `email` of a GoogleUserInfo: a String, the empty one included
UserInfoEmails == GoogleEmails \cup { EmptyStr }
\* usernames Twitter's users/me endpoint returns
TwitterUsernames == { <<"u">> }
\* the `username` of a TwitterUserData: a String, with '@' or '.' in it or empty
UserDataUsernames == TwitterUsernames \cup { <<"u", "@", "x">>, <<"u", ".">>, EmptyStr }
\* token responses a token endpoint returns: the access-token secret, and
\* expires_in (omitted, or a number of seconds)
TokenResponses ==
    { [secret |-> <<"t">>, expires_in |-> None],
      [secret |-> <<"b", ":", "t">>, expires_in |-> Some(1)] }

\* the `state` of an AuthRequest: an Option<String>, absent or any text
StateParams == { None, Some("s1"), Some("s2") }

\* what a failed token request yields (oauth2::RequestTokenError, as it displays):
\* an error response of the provider, or a transport error
TokenErrors == { "invalid_grant", "invalid_client", "connection refused" }

\* the one key of the PkceVerifiers map
VerifierKey == "twitter_verifier"

-----------------------------------------------------------------------------
(* Responses *)

NoCookie == None

\* Cookie::build(("sid", value)).path("/").http_only(true).same_site(Lax).max_age(secs)
SidCookie(value, secs) ==
    [name |-> "sid", value |-> value, path |-> "/", http_only |-> TRUE,
     same_site |-> "Lax", max_age |-> secs]

\* the removal cookie of check_authenticated and logout
RemovalCookie == SidCookie(EmptyStr, RemovalMaxAge)

\* a response: status, body (a message or the page's name), Location, Set-Cookie,
\* and the identity a protected page shows
Response(status, body, location, cookie, identity) ==
    [status |-> status, body |-> body, location |-> location,
     cookie |-> cookie, identity |-> identity]

\* Redirect::to(uri): 303 See Other with a Location header
RedirectTo(location) == Response(303, "", location, NoCookie, None)

\* (jar.add(cookie), Redirect::to(uri))
RedirectWithCookie(location, cookie) == Response(303, "", location, Some(cookie), None)

Html(page, identity) == Response(200, page, "", NoCookie, identity)

\* ApiError
ErrDatabase == [kind |-> "Database", msg |-> ""]
ErrRequest == [kind |-> "Request", msg |-> ""]
ErrTokenError(e) == [kind |-> "TokenError", msg |-> e]
ErrUnauthorized == [kind |-> "Unauthorized", msg |-> ""]
ErrInternalServerError == [kind |-> "InternalServerError", msg |-> ""]
\* ErrBadRequest as the variant without a message
ErrBadRequestAsUnauthorized(msg) == [kind |-> "Unauthorized", msg |-> ""]

ErrBadRequest(msg) == [kind |-> "BadRequest", msg |-> msg]

\* IntoResponse that removes the sid cookie with every 401
IntoResponseClearsCookie(err) ==
    CASE err.kind \in { "TokenError", "Unauthorized" } ->
            Response(401, "Authentication failed", "", Some(RemovalCookie), None)
      [] err.kind = "BadRequest" ->
            Response(400, err.msg, "", NoCookie, None)
      [] err.kind = "Request" ->
            Response(502, "External service error", "", NoCookie, None)
      [] OTHER ->
            Response(500, "Database error occurred", "", NoCookie, None)

\* IntoResponse that answers a TokenError with the error's own text
IntoResponseWithDetail(err) ==
    CASE err.kind = "TokenError" ->
            Response(401, err.msg, "", NoCookie, None)
      [] err.kind = "BadRequest" ->
            Response(400, err.msg, "", NoCookie, None)
      [] err.kind = "Request" ->
            Response(502, "External service error", "", NoCookie, None)
      [] err.kind = "Unauthorized" ->
            Response(401, "You are not authorized to access this resource", "", NoCookie, None)
      [] OTHER ->
            Response(500, "Database error occurred", "", NoCookie, None)

\* impl IntoResponse for ApiError
IntoResponse(err) ==
    CASE err.kind = "Database" ->
            Response(500, "Database error occurred", "", NoCookie, None)
      [] err.kind = "Request" ->
            Response(502, "External service error", "", NoCookie, None)
      [] err.kind = "TokenError" ->
            Response(401, "Authentication failed", "", NoCookie, None)
      [] err.kind = "Unauthorized" ->
            Response(401, "You are not authorized to access this resource", "", NoCookie, None)
      [] err.kind = "InternalServerError" ->
            Response(500, "Internal server error", "", NoCookie, None)
      [] err.kind = "BadRequest" ->
            Response(400, err.msg, "", NoCookie, None)

-----------------------------------------------------------------------------
(* Router *)

AuthPaths == { "/api/auth/google_callback", "/api/auth/twitter_callback",
               "/api/auth/twitter_login", "/api/auth/logout" }
ProtectedPaths == { "/protected", "/protected/profile" }
PublicPaths == { "/", "/login", "/health", "/static" }
Paths == AuthPaths \cup ProtectedPaths \cup PublicPaths

\* init_router: the handler of a route
RouteHandler(path) ==
    CASE path = "/api/auth/google_callback" -> "google_callback"
      [] path = "/api/auth/twitter_callback" -> "twitter_callback"
      [] path = "/api/auth/twitter_login" -> "twitter_login"
      [] path = "/api/auth/logout" -> "logout"
      [] path = "/protected" -> "protected"
      [] path = "/protected/profile" -> "get_profile"
      [] path = "/" -> "homepage"
      [] path = "/login" -> "login_page"
      [] path = "/health" -> "health_check"
      [] path = "/static" -> "ServeDir"

\* RouteGated with the layer put on the "/" route of protected_router alone
RouteGatedRootOnly(path) == path = "/protected"

\* init_router: the routes under protected_router's
\* route_layer(from_fn_with_state(state, check_authenticated))
RouteGated(path) == path \in { "/protected", "/protected/profile" }

-----------------------------------------------------------------------------
(* The store *)

UserIdOf(us, email) == (CHOOSE u \in us : u.email = email).id

\* INSERT INTO users (email) VALUES ($1)
\*   ON CONFLICT (email) DO UPDATE SET last_updated = CURRENT_TIMESTAMP
\* (a new row's last_updated is the insertion time)
UpsertUser(us, email, t) ==
    IF \E u \in us : u.email = email
    THEN { IF u.email = email THEN [u EXCEPT !.last_updated = t] ELSE u : u \in us }
    ELSE us \cup { [id |-> Cardinality(us) + 1, email |-> email, last_updated |-> t] }

\* UpsertSession without the ON CONFLICT (user_id) DO UPDATE clause
UpsertSessionInsertOnly(ss, us, email, sid, expires) ==
    ss \cup { [user_id |-> UserIdOf(us, email), session_id |-> sid, expires_at |-> expires] }

\* UpsertSession with ON CONFLICT (user_id) DO NOTHING
UpsertSessionDoNothing(ss, us, email, sid, expires) ==
    LET uid == UserIdOf(us, email)
    IN  IF \E s \in ss : s.user_id = uid
        THEN ss
        ELSE ss \cup { [user_id |-> uid, session_id |-> sid, expires_at |-> expires] }

\* INSERT INTO sessions (user_id, session_id, expires_at)
\*   VALUES ((SELECT id FROM users WHERE email = $1 LIMIT 1), $2, $3)
\*   ON CONFLICT (user_id) DO UPDATE SET session_id = excluded.session_id,
\*                                       expires_at = excluded.expires_at
UpsertSession(ss, us, email, sid, expires) ==
    LET uid == UserIdOf(us, email)
        row == [user_id |-> uid, session_id |-> sid, expires_at |-> expires]
    IN  IF \E s \in ss : s.user_id = uid
        THEN { IF s.user_id = uid THEN row ELSE s : s \in ss }
        ELSE ss \cup { row }

\* CountValid without the `AND expires_at > NOW()` condition
CountValidAnyExpiry(ss, sid, t) == Cardinality({ s \in ss : s.session_id = sid })

\* CountValid with `expires_at >= NOW()`
CountValidAtExpiry(ss, sid, t) ==
    Cardinality({ s \in ss : s.session_id = sid /\ s.expires_at >= t })

\* SELECT COUNT(*) FROM sessions WHERE session_id = $1 AND expires_at > NOW()
CountValid(ss, sid, t) ==
    Cardinality({ s \in ss : s.session_id = sid /\ s.expires_at > t })

\* SELECT users.email FROM sessions LEFT JOIN users ON sessions.user_id = users.id
\*   WHERE sessions.session_id = $1 AND sessions.expires_at > NOW() LIMIT 1
\* : the e-mails the statement can return (LIMIT 1 picks any matching row)
SelectEmails(ss, us, sid, t) ==
    { u.email : u \in { u \in us : \E s \in ss :
                          /\ s.user_id = u.id
                          /\ s.session_id = sid
                          /\ s.expires_at > t } }

\* DeleteSession that deletes expired rows only
DeleteSessionExpired(ss, sid) == { s \in ss : s.session_id /= sid \/ s.expires_at > 0 }

\* DELETE FROM sessions WHERE session_id = $1
DeleteSession(ss, sid) == { s \in ss : s.session_id /= sid }

\* JarGet that opens a cookie sealed under any key
JarGetAnyKey(cookie, k) == IF IsSome(cookie) THEN Some(Unwrap(cookie).value) ELSE None

\* PrivateCookieJar::get("sid"): the value of a cookie sealed under the process's key
JarGet(cookie, k) ==
    IF IsSome(cookie) /\ Unwrap(cookie).key = k THEN Some(Unwrap(cookie).value) ELSE None

-----------------------------------------------------------------------------
(* The PKCE store: HashMap<String, String> *)

EmptyMap == << >>
\* MapInsert that leaves an entry already under the key as it is
MapInsertIfAbsent(m, k, v) == [x \in (DOMAIN m) \cup {k} |-> IF x \in DOMAIN m THEN m[x] ELSE v]

\* HashMap::insert
MapInsert(m, k, v) == [x \in (DOMAIN m) \cup {k} |-> IF x = k THEN v ELSE m[x]]
MapGet(m, k) == IF k \in DOMAIN m THEN Some(m[k]) ELSE None
\* MapRemove that leaves the entry in the map
MapRemoveNothing(m, k) == m

\* HashMap::remove
MapRemove(m, k) == [x \in (DOMAIN m) \ {k} |-> m[x]]

\* StoreVerifier that stores nothing
StoreVerifierNothing(m, v) == m

\* StoreVerifier that keeps the entry already in the map (entry().or_insert())
StoreVerifierKeepOld(m, v) == IF VerifierKey \in DOMAIN m THEN m ELSE MapInsert(m, VerifierKey, v)

\* twitter_login: verifiers.insert("twitter_verifier", pkce_verifier.secret().clone())
StoreVerifier(m, v) == MapInsert(m, VerifierKey, v)

\* TakeVerifier with HashMap::get in the place of HashMap::remove
TakeVerifierKeep(m) == [found |-> MapGet(m, VerifierKey), rest |-> m]

\* twitter_callback: verifiers.remove("twitter_verifier"): what was found, and the map left
TakeVerifier(m) == [found |-> MapGet(m, VerifierKey), rest |-> MapRemove(m, VerifierKey)]

-----------------------------------------------------------------------------
(* Requests *)

ReqIds == DOMAIN reqs

\* the fields of a request, before its handler has set any
NoReq ==
    [id |-> 0, path |-> "", handler |-> "none", pc |-> "none", cookie |-> None,
     sid |-> None, username |-> None, state |-> None, attempt |-> 0, verifier |-> 0, token |-> None, secs |-> 0,
     expires |-> 0, email |-> None, admitted |-> FALSE, matched |-> {},
     ran |-> FALSE, deleted |-> FALSE, sent |-> <<>>, resp |-> None]

\* a request for a route, dispatched by the router
NewReq(path) ==
    [NoReq EXCEPT !.id = nextReq, !.path = path, !.handler = RouteHandler(path)]

\* Call through a client that sends every request a second time
CallTwice(q, call) == [q EXCEPT !.pc = call, !.sent = Append(Append(@, call), call)]

\* a callback sends the request of `call` (to the token endpoint, the user-info
\* endpoint or the store) and awaits the answer
Call(q, call) == [q EXCEPT !.pc = call, !.sent = Append(@, call)]

\* the request returns: its response is sent
Return(q, response) == [q EXCEPT !.pc = "done", !.resp = Some(response)]

\* a further request can arrive
CanArrive ==
    /\ budget > 0
    /\ Cardinality(ReqIds) < MaxInFlight

\* request `q` arrives and has run up to its first await, or to its return
Arrive(q) ==
    /\ CanArrive
    /\ budget' = budget - 1
    /\ nextReq' = nextReq + 1
    /\ IF q.pc = "done"
       THEN /\ last' = q
            /\ UNCHANGED reqs
       ELSE /\ reqs' = [x \in ReqIds \cup {q.id} |-> IF x = q.id THEN q ELSE reqs[x]]
            /\ UNCHANGED last

\* request `r` runs on to its next await
Step(r, q) ==
    /\ reqs' = [reqs EXCEPT ![r] = q]
    /\ UNCHANGED <<last, nextReq, budget>>

\* request `r` returns `response`
Finish(r, q, response) ==
    /\ reqs' = [x \in ReqIds \ {r} |-> reqs[x]]
    /\ last' = Return(q, response)
    /\ UNCHANGED <<nextReq, budget>>

\* the MutexGuard `verifiers` is dropped when twitter_callback returns
Release(r) == IF lockOwner = r THEN 0 ELSE lockOwner

\* the cookie of a login, as the client holds it
Cookie(c) == [key |-> c.key, value |-> c.value]

\* the cookies a client can present: none, or one the server sealed earlier
Presentable == { None } \cup { Some(Cookie(c)) : c \in issued }

Builds == { "modular", "main" }

InitState ==
    /\ build \in Builds
    /\ now = 0
    /\ key = 1
    /\ restarts = 0
    /\ verifiers = EmptyMap
    /\ lockOwner = 0
    /\ nextVerifier = 1
    /\ attempts = {}
    /\ exchanges = {}
    /\ users = {}
    /\ sessions = {}
    /\ issued = {}
    /\ reqs = << >>
    /\ last = NoReq
    /\ nextReq = 1

-----------------------------------------------------------------------------
(* twitter_login *)

\* twitter_login up to pkce_verifiers.lock().await
TwitterLoginStart ==
    /\ Arrive([NewReq("/api/auth/twitter_login") EXCEPT
                  !.pc = "lock", !.verifier = nextVerifier])
    /\ nextVerifier' = nextVerifier + 1
    /\ UNCHANGED <<procVars, clockVars, pkceVars, attempts, exchanges, dbVars, issued>>

\* twitter_login from the lock to its return; the guard is dropped at the return
TwitterLoginInsert(r) ==
    /\ reqs[r].handler = "twitter_login"
    /\ reqs[r].pc = "lock"
    /\ lockOwner = 0
    /\ verifiers' = StoreVerifier(verifiers, reqs[r].verifier)
    /\ attempts' = attempts \cup { [id |-> r, verifier |-> reqs[r].verifier] }
    /\ Finish(r, reqs[r], RedirectTo("https://twitter.com/i/oauth2/authorize"))
    /\ UNCHANGED <<procVars, clockVars, lockOwner, nextVerifier, exchanges, dbVars, issued>>

-----------------------------------------------------------------------------
(* twitter_callback and google_callback *)

\* the login attempts whose redirect a client has received
Initiated == { a.id : a \in attempts }

\* the verifier twitter_login generated for attempt `a`
AttemptVerifier(a) == (CHOOSE x \in attempts : x.id = a).verifier

\* twitter_callback up to pkce_verifiers.lock().await; the code in the query belongs
\* to login attempt `attempt` (0: to none)
TwitterCallbackStart(attempt) ==
    /\ \E st \in states :
         Arrive([NewReq("/api/auth/twitter_callback") EXCEPT
                    !.pc = "lock", !.attempt = attempt, !.state = st])
    /\ UNCHANGED <<procVars, clockVars, pkceVars, twitterVars, dbVars, issued>>

\* twitter_callback from the lock to the token exchange's await, or to the
\* BadRequest return
TwitterCallbackLock(r) ==
    /\ reqs[r].handler = "twitter_callback"
    /\ reqs[r].pc = "lock"
    /\ lockOwner = 0
    /\ LET t == TakeVerifier(verifiers)
       IN  /\ verifiers' = t.rest
           /\ IF IsSome(t.found)
              THEN /\ lockOwner' = r
                   /\ exchanges' = exchanges \cup
                        { [req |-> r, attempt |-> reqs[r].attempt, verifier |-> Unwrap(t.found)] }
                   /\ Step(r, Call([reqs[r] EXCEPT !.verifier = Unwrap(t.found)], "exchange"))
              ELSE /\ lockOwner' = 0
                   /\ UNCHANGED exchanges
                   /\ Finish(r, reqs[r], IntoResponse(ErrBadRequest("Missing PKCE verifier")))
    /\ UNCHANGED <<procVars, clockVars, nextVerifier, attempts, dbVars, issued>>

\* google_callback up to the token exchange's await
GoogleCallbackStart ==
    /\ \E st \in states :
         Arrive(Call([NewReq("/api/auth/google_callback") EXCEPT !.state = st], "exchange"))
    /\ UNCHANGED <<procVars, clockVars, pkceVars, twitterVars, dbVars, issued>>

\* ProviderAccepts for a token request that is refused when the callback carried no
\* `state`
ProviderAcceptsWithState(q) ==
    /\ q.state /= None
    /\ \/ q.handler = "google_callback"
       \/ /\ q.handler = "twitter_callback"
          /\ q.attempt \in Initiated
          /\ q.verifier = AttemptVerifier(q.attempt)

\* the token endpoint checks the PKCE verifier against the challenge of the
\* authorization request the code was issued for (RFC 7636, section 4.6)
ProviderAccepts(q) ==
    \/ q.handler = "google_callback"
    \/ /\ q.handler = "twitter_callback"
       /\ q.attempt \in Initiated
       /\ q.verifier = AttemptVerifier(q.attempt)

\* exchange_code(..).request_async(async_http_client).await? answers
TokenExchange(r) ==
    /\ reqs[r].handler \in { "google_callback", "twitter_callback" }
    /\ reqs[r].pc = "exchange"
    /\ \/ /\ ProviderAccepts(reqs[r])
          /\ \E token \in TokenResponses :
               Step(r, Call([reqs[r] EXCEPT !.token = Some(token)], "userinfo"))
          /\ UNCHANGED lockOwner
       \/ /\ \E e \in TokenErrors : Finish(r, reqs[r], IntoResponse(ErrTokenError(e)))
          /\ lockOwner' = Release(r)
    /\ UNCHANGED <<procVars, clockVars, verifiers, twitterVars, dbVars, issued>>

\* store_user_session: token.expires_in().map(|d| d.as_secs() as i64).unwrap_or(3600)
SessionSecsNoDefault(token) == IF IsSome(token.expires_in) THEN Unwrap(token.expires_in) ELSE 0

SessionSecs(token) == IF IsSome(token.expires_in) THEN Unwrap(token.expires_in) ELSE DefaultSecs

\* the profiles the user-info endpoint can return to callback q: a TwitterUserInfo
\* with its username, or a GoogleUserInfo with its email
Profiles(q) ==
    IF q.handler = "twitter_callback"
    THEN { [username |-> Some(u), email |-> None] : u \in handles }
    ELSE { [username |-> None, email |-> Some(e)] : e \in accounts }

\* the identity a callback passes to store_user_session
CallbackEmail(q, profile) ==
    IF q.handler = "twitter_callback"
    THEN TwitterEmail(Unwrap(profile.username))
    ELSE Unwrap(profile.email)

\* the user-info request (send().await? and json().await?) answers; on success the
\* handler goes on into store_user_session, up to the await of the users upsert
UserInfo(r) ==
    /\ reqs[r].handler \in { "google_callback", "twitter_callback" }
    /\ reqs[r].pc = "userinfo"
    /\ \/ /\ \E profile \in Profiles(reqs[r]) :
               LET token == Unwrap(reqs[r].token)
                   email == CallbackEmail(reqs[r], profile)
               IN  Step(r, Call([reqs[r] EXCEPT
                                    !.username = profile.username,
                                    !.email = Some(email),
                                    !.secs = SessionSecs(token),
                                    !.expires = now + SessionSecs(token),
                                    !.sid = Some(SessionId(email, token.secret))],
                                "upsert_user"))
          /\ UNCHANGED lockOwner
       \/ /\ Finish(r, reqs[r], IntoResponse(ErrRequest))
          /\ lockOwner' = Release(r)
    /\ UNCHANGED <<procVars, clockVars, verifiers, twitterVars, dbVars, issued>>

\* store_user_session: the users upsert answers
UpsertUserStep(r) ==
    /\ reqs[r].pc = "upsert_user"
    /\ \/ /\ users' = UpsertUser(users, Unwrap(reqs[r].email), now)
          /\ Step(r, Call(reqs[r], "upsert_session"))
          /\ UNCHANGED lockOwner
       \/ /\ Finish(r, reqs[r], IntoResponse(ErrDatabase))
          /\ lockOwner' = Release(r)
          /\ UNCHANGED users
    /\ UNCHANGED <<procVars, clockVars, verifiers, twitterVars, sessions, issued>>

\* store_user_session: Ok((jar.add(cookie), Redirect::to("/protected")))
SessionIssued(q) == RedirectWithCookie("/protected", SidCookie(Unwrap(q.sid), q.secs))

\* store_user_session: the sessions upsert answers, and the handler returns
UpsertSessionStep(r) ==
    /\ reqs[r].pc = "upsert_session"
    /\ \/ /\ sessions' = UpsertSession(sessions, users, Unwrap(reqs[r].email),
                                       Unwrap(reqs[r].sid), reqs[r].expires)
          /\ Finish(r, reqs[r], SessionIssued(reqs[r]))
          /\ issued' = issued \cup { [key |-> key, value |-> Unwrap(reqs[r].sid),
                                      email |-> Unwrap(reqs[r].email),
                                      handler |-> reqs[r].handler] }
       \/ /\ Finish(r, reqs[r], IntoResponse(ErrDatabase))
          /\ UNCHANGED <<sessions, issued>>
    /\ lockOwner' = Release(r)
    /\ UNCHANGED <<procVars, clockVars, verifiers, twitterVars, users>>

-----------------------------------------------------------------------------
(* logout *)

\* the response after the DELETE answered: services::session::logout propagates a
\* store error with `?`, main.rs's logout discards it with `let _ =`
LogoutResponse(b, deleted) ==
    IF deleted \/ b = "main"
    THEN RedirectWithCookie("/", RemovalCookie)
    ELSE IntoResponse(ErrDatabase)

\* logout up to the DELETE's await, or to its return when jar.get("sid") is None
LogoutStart(cookie) ==
    /\ LET q == [NewReq("/api/auth/logout") EXCEPT
                    !.cookie = cookie, !.sid = JarGet(cookie, key)]
       IN  Arrive(IF IsSome(q.sid)
                  THEN [q EXCEPT !.pc = "delete"]
                  ELSE Return(q, RedirectWithCookie("/", RemovalCookie)))
    /\ UNCHANGED <<procVars, clockVars, pkceVars, twitterVars, dbVars, issued>>

\* logout: the DELETE answers, and the handler returns
LogoutDelete(r) ==
    /\ reqs[r].handler = "logout"
    /\ reqs[r].pc = "delete"
    /\ \E deleted \in BOOLEAN :
         /\ sessions' = IF deleted THEN DeleteSession(sessions, Unwrap(reqs[r].sid))
                                   ELSE sessions
         /\ Finish(r, [reqs[r] EXCEPT !.deleted = deleted], LogoutResponse(build, deleted))
    /\ UNCHANGED <<procVars, clockVars, pkceVars, twitterVars, users, issued>>

-----------------------------------------------------------------------------
(* The protected routes: check_authenticated, the UserProfile extractor, the handler *)

\* check_authenticated: match result { Ok((count,)) if count > 0 => admit, _ => deny }
GateAdmits(answered, count) == answered /\ count > 0

\* GateDenial as a rejection with a status: Err(StatusCode::UNAUTHORIZED)
GateDenialUnauthorized == Response(401, "", "", NoCookie, None)

\* check_authenticated's denial of a request that carried a sid cookie
GateDenial == RedirectWithCookie("/login", RemovalCookie)

\* a request for a protected route arrives.  Under the route layer
\* check_authenticated runs first, up to its query's await, or to its return
\* when jar.get("sid") is None
ProtectedStart(path, cookie) ==
    /\ LET q == [NewReq(path) EXCEPT !.cookie = cookie, !.sid = JarGet(cookie, key)]
       IN  Arrive(IF ~RouteGated(path) THEN [q EXCEPT !.pc = "extract"]
                  ELSE IF IsSome(q.sid) THEN [q EXCEPT !.pc = "gate_query"]
                  ELSE Return(q, RedirectTo("/login")))
    /\ UNCHANGED <<procVars, clockVars, pkceVars, twitterVars, dbVars, issued>>

\* check_authenticated: the COUNT query answers; next.run(req) goes on into the
\* UserProfile extractor, up to its query's await
GateQuery(r) ==
    /\ reqs[r].pc = "gate_query"
    /\ \E answered \in BOOLEAN :
         LET sid == Unwrap(reqs[r].sid)
         IN  IF GateAdmits(answered, CountValid(sessions, sid, now))
             THEN Step(r, [reqs[r] EXCEPT
                              !.pc = "extract",
                              !.admitted = TRUE,
                              !.matched = SelectEmails(sessions, users, sid, now)])
             ELSE Finish(r, reqs[r], GateDenial)
    /\ UNCHANGED <<procVars, clockVars, pkceVars, twitterVars, dbVars, issued>>

\* UserProfile::from_request: the SELECT answers; with a row the handler
\* (protected or get_profile, which do not await) runs with the row's e-mail
ExtractUser(r) ==
    /\ reqs[r].pc = "extract"
    /\ \/ /\ ~IsSome(reqs[r].sid)
          /\ Finish(r, reqs[r], IntoResponse(ErrUnauthorized))
       \/ /\ IsSome(reqs[r].sid)
          /\ \E email \in SelectEmails(sessions, users, Unwrap(reqs[r].sid), now) :
               Finish(r, [reqs[r] EXCEPT !.ran = TRUE, !.email = Some(email)],
                      Html(reqs[r].handler, Some(email)))
       \/ /\ IsSome(reqs[r].sid)
          /\ SelectEmails(sessions, users, Unwrap(reqs[r].sid), now) = {}
          /\ Finish(r, reqs[r], IntoResponse(ErrUnauthorized))
       \/ /\ IsSome(reqs[r].sid)
          /\ Finish(r, reqs[r], IntoResponse(ErrDatabase))
    /\ UNCHANGED <<procVars, clockVars, pkceVars, twitterVars, dbVars, issued>>

\* homepage, login_page, health_check, the static files: no gate, no change of state
PublicRequest(path) ==
    /\ Arrive(Return([NewReq(path) EXCEPT !.ran = TRUE], Html(RouteHandler(path), None)))
    /\ UNCHANGED <<procVars, clockVars, pkceVars, twitterVars, dbVars, issued>>

-----------------------------------------------------------------------------
(* The environment *)

\* a second passes
Tick ==
    /\ now < MaxNow
    /\ now' = now + 1
    /\ UNCHANGED <<procVars, pkceVars, twitterVars, dbVars, issued, reqs, last,
                   nextReq, budget>>

\* the client of request `r` goes away while the handler is suspended: the task's
\* future is dropped at its await, locals and guards with it; no response is sent
Abort(r) ==
    /\ reqs' = [x \in ReqIds \ {r} |-> reqs[x]]
    /\ lockOwner' = Release(r)
    /\ UNCHANGED <<procVars, clockVars, verifiers, twitterVars, dbVars, issued, last,
                   nextReq, budget>>

\* the process is restarted: main() builds a new key (Key::generate()) and an
\* empty PkceVerifiers map; the tasks of the old process are gone; the store stays
Restart ==
    /\ restarts < MaxRestarts
    /\ restarts' = restarts + 1
    /\ key' = key + 1
    /\ verifiers' = EmptyMap
    /\ lockOwner' = 0
    /\ reqs' = << >>
    /\ UNCHANGED <<build, accounts, handles, states, clockVars, twitterVars, dbVars, issued, last, nextReq,
                   budget>>

-----------------------------------------------------------------------------
(* The Twitter login flow: twitter_login, twitter_callback, restarts *)

InitPkce == InitState /\ accounts = GoogleEmails /\ handles = TwitterUsernames /\ states = { None } /\ budget = PkceRequests

NextPkce ==
    \/ TwitterLoginStart
    \/ \E r \in ReqIds : TwitterLoginInsert(r)
    \/ \E a \in Initiated \cup {0} : TwitterCallbackStart(a)
    \/ \E r \in ReqIds : TwitterCallbackLock(r)
    \/ \E r \in ReqIds : TokenExchange(r)
    \/ \E r \in ReqIds : UserInfo(r)
    \/ \E r \in ReqIds : UpsertUserStep(r)
    \/ \E r \in ReqIds : UpsertSessionStep(r)
    \/ Restart

SpecPkce == InitPkce /\ [][NextPkce]_vars

(* Sessions: logins through google_callback, the protected routes, logout, time *)

InitSession == InitState /\ accounts = GoogleEmails /\ handles = TwitterUsernames /\ states = { None } /\ budget = SessionRequests

NextSession ==
    \/ GoogleCallbackStart
    \/ \E r \in ReqIds : TokenExchange(r)
    \/ \E r \in ReqIds : UserInfo(r)
    \/ \E r \in ReqIds : UpsertUserStep(r)
    \/ \E r \in ReqIds : UpsertSessionStep(r)
    \/ \E c \in Presentable : LogoutStart(c)
    \/ \E r \in ReqIds : LogoutDelete(r)
    \/ \E p \in ProtectedPaths, c \in Presentable : ProtectedStart(p, c)
    \/ \E r \in ReqIds : GateQuery(r)
    \/ \E r \in ReqIds : ExtractUser(r)
    \/ \E p \in PublicPaths : PublicRequest(p)
    \/ Tick

SpecSession == InitSession /\ [][NextSession]_vars

(* The same requests, for clients that send GateRequests of them *)

InitGate == InitState /\ accounts = GoogleEmails /\ handles = TwitterUsernames /\ states = { None } /\ budget = GateRequests

SpecGate == InitGate /\ [][NextSession]_vars

-----------------------------------------------------------------------------
(* The two callbacks, for a Google that can return any e-mail; clients can go away *)

InitCallback == InitState /\ accounts = UserInfoEmails /\ handles = TwitterUsernames /\ states = { None } /\ budget = CallbackRequests

NextCallback ==
    \/ TwitterLoginStart
    \/ \E r \in ReqIds : TwitterLoginInsert(r)
    \/ \E a \in Initiated \cup {0} : TwitterCallbackStart(a)
    \/ \E r \in ReqIds : TwitterCallbackLock(r)
    \/ GoogleCallbackStart
    \/ \E r \in ReqIds : TokenExchange(r)
    \/ \E r \in ReqIds : UserInfo(r)
    \/ \E r \in ReqIds : UpsertUserStep(r)
    \/ \E r \in ReqIds : UpsertSessionStep(r)
    \/ \E r \in ReqIds : Abort(r)

SpecCallback == InitCallback /\ [][NextCallback]_vars

-----------------------------------------------------------------------------
(* Twitter logins, for a Twitter that can return any username *)

InitTwitter ==
    /\ InitState
    /\ accounts = GoogleEmails
    /\ handles = UserDataUsernames
    /\ states = { None }
    /\ budget = TwitterRequests

NextTwitter ==
    \/ TwitterLoginStart
    \/ \E r \in ReqIds : TwitterLoginInsert(r)
    \/ \E a \in Initiated \cup {0} : TwitterCallbackStart(a)
    \/ \E r \in ReqIds : TwitterCallbackLock(r)
    \/ \E r \in ReqIds : TokenExchange(r)
    \/ \E r \in ReqIds : UserInfo(r)
    \/ \E r \in ReqIds : UpsertUserStep(r)
    \/ \E r \in ReqIds : UpsertSessionStep(r)

SpecTwitter == InitTwitter /\ [][NextTwitter]_vars

-----------------------------------------------------------------------------
(* The callbacks, for callback URLs with any `state` parameter *)

InitStateParam ==
    /\ InitState
    /\ accounts = GoogleEmails
    /\ handles = TwitterUsernames
    /\ states = StateParams
    /\ budget = StateRequests

NextStateParam ==
    \/ TwitterLoginStart
    \/ \E r \in ReqIds : TwitterLoginInsert(r)
    \/ \E a \in Initiated \cup {0} : TwitterCallbackStart(a)
    \/ \E r \in ReqIds : TwitterCallbackLock(r)
    \/ GoogleCallbackStart
    \/ \E r \in ReqIds : TokenExchange(r)
    \/ \E r \in ReqIds : UserInfo(r)
    \/ \E r \in ReqIds : UpsertUserStep(r)
    \/ \E r \in ReqIds : UpsertSessionStep(r)

SpecStateParam == InitStateParam /\ [][NextStateParam]_vars

-----------------------------------------------------------------------------
(* Logins, logouts and protected requests *)


InitLogout ==
    /\ InitState
    /\ accounts = GoogleEmails
    /\ handles = TwitterUsernames
    /\ states = { None }
    /\ budget = LogoutRequests

NextLogout ==
    \/ GoogleCallbackStart
    \/ \E r \in ReqIds : TokenExchange(r)
    \/ \E r \in ReqIds : UserInfo(r)
    \/ \E r \in ReqIds : UpsertUserStep(r)
    \/ \E r \in ReqIds : UpsertSessionStep(r)
    \/ \E c \in Presentable : LogoutStart(c)
    \/ \E r \in ReqIds : LogoutDelete(r)
    \/ \E p \in ProtectedPaths, c \in Presentable : ProtectedStart(p, c)
    \/ \E r \in ReqIds : GateQuery(r)
    \/ \E r \in ReqIds : ExtractUser(r)

SpecLogout == InitLogout /\ [][NextLogout]_vars

-----------------------------------------------------------------------------
(* Logins and protected requests of a server that is restarted *)

InitRestart == InitState /\ accounts = GoogleEmails /\ handles = TwitterUsernames /\ states = { None } /\ budget = RestartRequests

NextRestart ==
    \/ GoogleCallbackStart
    \/ \E r \in ReqIds : TokenExchange(r)
    \/ \E r \in ReqIds : UserInfo(r)
    \/ \E r \in ReqIds : UpsertUserStep(r)
    \/ \E r \in ReqIds : UpsertSessionStep(r)
    \/ \E p \in ProtectedPaths, c \in Presentable : ProtectedStart(p, c)
    \/ \E r \in ReqIds : GateQuery(r)
    \/ \E r \in ReqIds : ExtractUser(r)
    \/ Restart

SpecRestart == InitRestart /\ [][NextRestart]_vars

-----------------------------------------------------------------------------
(* Logins and protected requests of clients that send one request after another: a   *)
(* request arrives when no other request is in flight                               *)

InitRelogin ==
    /\ InitState
    /\ accounts = GoogleEmails
    /\ handles = TwitterUsernames
    /\ states = { None }
    /\ budget = ReloginRequests

NextRelogin ==
    \/ (reqs = << >> /\ GoogleCallbackStart)
    \/ \E r \in ReqIds : TokenExchange(r)
    \/ \E r \in ReqIds : UserInfo(r)
    \/ \E r \in ReqIds : UpsertUserStep(r)
    \/ \E r \in ReqIds : UpsertSessionStep(r)
    \/ \E p \in ProtectedPaths, c \in Presentable : (reqs = << >> /\ ProtectedStart(p, c))
    \/ \E r \in ReqIds : GateQuery(r)
    \/ \E r \in ReqIds : ExtractUser(r)

SpecRelogin == InitRelogin /\ [][NextRelogin]_vars

-----------------------------------------------------------------------------
(* Logins through both providers and the protected pages, for a Google that can     *)
(* return any e-mail                                                                *)

AnyDomainEmails == { <<"a">>, <<"u">> \o TwitterLocal }

InitProviders ==
    /\ InitState
    /\ accounts = AnyDomainEmails
    /\ handles = TwitterUsernames
    /\ states = { None }
    /\ budget = ProviderRequests

NextProviders ==
    \/ TwitterLoginStart
    \/ \E r \in ReqIds : TwitterLoginInsert(r)
    \/ \E a \in Initiated \cup {0} : TwitterCallbackStart(a)
    \/ \E r \in ReqIds : TwitterCallbackLock(r)
    \/ GoogleCallbackStart
    \/ \E r \in ReqIds : TokenExchange(r)
    \/ \E r \in ReqIds : UserInfo(r)
    \/ \E r \in ReqIds : UpsertUserStep(r)
    \/ \E r \in ReqIds : UpsertSessionStep(r)
    \/ \E p \in ProtectedPaths, c \in Presentable : ProtectedStart(p, c)
    \/ \E r \in ReqIds : GateQuery(r)
    \/ \E r \in ReqIds : ExtractUser(r)

SpecProviders == InitProviders /\ [][NextProviders]_vars

-----------------------------------------------------------------------------
(* Progress.  The runtime polls every task that can run, the tokio mutex is handed   *)
(* to a task that waits for it, and the store answers every statement (the pool's   *)
(* acquire_timeout bounds the wait for a connection).  Nothing makes a provider     *)
(* answer: the steps TokenExchange and UserInfo are the provider's.                  *)

InitLive == InitState /\ accounts = GoogleEmails /\ handles = TwitterUsernames /\ states = { None } /\ budget = LiveRequests

NextLive ==
    \/ TwitterLoginStart
    \/ \E r \in ReqIds : TwitterLoginInsert(r)
    \/ \E a \in Initiated \cup {0} : TwitterCallbackStart(a)
    \/ \E r \in ReqIds : TwitterCallbackLock(r)
    \/ GoogleCallbackStart
    \/ \E r \in ReqIds : TokenExchange(r)
    \/ \E r \in ReqIds : UserInfo(r)
    \/ \E r \in ReqIds : UpsertUserStep(r)
    \/ \E r \in ReqIds : UpsertSessionStep(r)

Fairness ==
    /\ \A r \in 1..LiveRequests : SF_vars(r \in ReqIds /\ TwitterLoginInsert(r))
    /\ \A r \in 1..LiveRequests : SF_vars(r \in ReqIds /\ TwitterCallbackLock(r))
    /\ \A r \in 1..LiveRequests : WF_vars(r \in ReqIds /\ UpsertUserStep(r))
    /\ \A r \in 1..LiveRequests : WF_vars(r \in ReqIds /\ UpsertSessionStep(r))

SpecLive == InitLive /\ [][NextLive]_vars /\ Fairness

-----------------------------------------------------------------------------
(* Properties of the Twitter login flow (SpecPkce) *)

HasVerifier(m) == VerifierKey \in DOMAIN m

\* request r, waiting for the PKCE lock in twitter_callback, gets it in this step
CallbackLocks(r) ==
    /\ reqs[r].handler = "twitter_callback"
    /\ reqs[r].pc = "lock"
    /\ restarts' = restarts
    /\ (r \notin DOMAIN reqs' \/ reqs'[r] /= reqs[r])

\* request r, waiting for the PKCE lock in twitter_login, gets it in this step
LoginInserts(r) ==
    /\ reqs[r].handler = "twitter_login"
    /\ reqs[r].pc = "lock"
    /\ restarts' = restarts
    /\ r \notin DOMAIN reqs'

MissingVerifierResponse == Response(400, "Missing PKCE verifier", "", NoCookie, None)

\* C1: PKCE consume-once.  twitter_login leaves its verifier V in the store, and only
\* twitter_login puts a verifier there; a twitter_callback that finds V removes it and
\* sends exactly V to the token endpoint; a twitter_callback that finds the store
\* empty (a replay, a callback without initiation, a callback after a restart)
\* returns 400 "Missing PKCE verifier" and changes nothing.
C1_ConsumeOnce ==
    [][ /\ \A r \in ReqIds : LoginInserts(r) =>
               MapGet(verifiers', VerifierKey) = Some(reqs[r].verifier)
        /\ (HasVerifier(verifiers') /\ verifiers' /= verifiers) =>
               \E r \in ReqIds : LoginInserts(r)
        /\ \A r \in ReqIds : CallbackLocks(r) =>
               IF HasVerifier(verifiers)
               THEN /\ ~HasVerifier(verifiers')
                    /\ r \in DOMAIN reqs'
                    /\ reqs'[r].pc = "exchange"
                    /\ reqs'[r].verifier = verifiers[VerifierKey]
                    /\ [req |-> r, attempt |-> reqs[r].attempt,
                        verifier |-> verifiers[VerifierKey]] \in exchanges'
               ELSE /\ verifiers' = verifiers
                    /\ exchanges' = exchanges
                    /\ r \notin DOMAIN reqs'
                    /\ last' = Return(reqs[r], MissingVerifierResponse)
      ]_vars

\* C1 witness: a callback has consumed a verifier, and a later callback, with the
\* store empty, was answered 400 "Missing PKCE verifier"
C1_Witness ==
    /\ exchanges /= {}
    /\ last.handler = "twitter_callback"
    /\ last.resp = Some(MissingVerifierResponse)
    /\ \E e \in exchanges : e.req < last.id

\* C2: no verifier is handed to two callbacks: two token requests that carry the same
\* verifier are the token request of one and the same callback.
C2_VerifierHandedOnce ==
    \A e1, e2 \in exchanges : e1.verifier = e2.verifier => e1.req = e2.req

\* C2 witness: two callbacks have each taken a verifier and sent a token request
C2_Witness == \E e1, e2 \in exchanges : e1.req /= e2.req

\* C23: concurrent twitter_logins never corrupt the PKCE store.  The store holds
\* nothing but the key "twitter_verifier"; the step in which a twitter_login inserts
\* leaves exactly one entry, the verifier of that login (the most recent insert); the
\* step in which a twitter_callback takes the lock leaves none; a restart leaves none;
\* and no other step changes the store.
C23_StoreNotCorrupted ==
    [][ /\ DOMAIN verifiers' \subseteq { "twitter_verifier" }
        /\ \A r \in ReqIds : LoginInserts(r) =>
               /\ Cardinality(DOMAIN verifiers') = 1
               /\ verifiers'["twitter_verifier"] = reqs[r].verifier
        /\ \A r \in ReqIds : CallbackLocks(r) => Cardinality(DOMAIN verifiers') = 0
        /\ restarts' /= restarts => Cardinality(DOMAIN verifiers') = 0
        /\ (restarts' = restarts /\ \A r \in ReqIds : ~LoginInserts(r) /\ ~CallbackLocks(r))
               => verifiers' = verifiers
      ]_vars

\* two twitter_logins ran concurrently and inserted in the reverse order of their
\* arrival: the store holds the verifier of the first to arrive, the last to insert
C23_Witness ==
    /\ HasVerifier(verifiers)
    /\ \E a1, a2 \in attempts :
          /\ a1.id < a2.id
          /\ verifiers[VerifierKey] = a1.verifier

AwaitsIO(q) == q.pc \in { "exchange", "userinfo", "upsert_user", "upsert_session" }

\* C3: no request owns the PKCE mutex while it awaits the token exchange, the user-info
\* fetch or a store statement.
C3_NoLockAcrossIO ==
    \A r \in ReqIds : AwaitsIO(reqs[r]) => lockOwner /= r

\* C4: the callback of a login attempt sends the verifier that this attempt's
\* twitter_login generated (for attempts whose code is presented once).
C4_OwnVerifier ==
    \A e \in exchanges :
        ( /\ e.attempt \in Initiated
          /\ \A e2 \in exchanges : e2.attempt = e.attempt => e2 = e )
        => e.verifier = AttemptVerifier(e.attempt)

-----------------------------------------------------------------------------
(* Properties of sessions, the gate and logout (SpecSession) *)

SessionsOf(ss, uid) == { s \in ss : s.user_id = uid }

AtMostOneSessionPerUser(ss) ==
    \A s1, s2 \in ss : s1.user_id = s2.user_id => s1 = s2

\* a request returns in this step
Returns == last' /= last

\* a callback returns the session cookie in this step
LoginSucceeds ==
    /\ Returns
    /\ last'.handler \in { "google_callback", "twitter_callback" }
    /\ Unwrap(last'.resp).status = 303

ValidRow(ss, sid, t) == \E s \in ss : s.session_id = sid /\ s.expires_at > t

\* check_authenticated's query of request r answers in this step
GateAnswers(r) ==
    /\ reqs[r].pc = "gate_query"
    /\ (r \notin DOMAIN reqs' \/ reqs'[r] /= reqs[r])

RemovalRedirect(location) ==
    Response(303, "", location,
             Some([name |-> "sid", value |-> EmptyStr, path |-> "/", http_only |-> TRUE,
                   same_site |-> "Lax", max_age |-> -1]),
             None)

\* C6: the gate decides on the store as it is at the request's own lookup: it admits
\* the request only if a session row with the cookie's session id and an expiry later
\* than now exists; when no such row exists (no row, or expiry <= now) it answers with
\* the redirect to /login and the removal cookie (sid, empty, max-age -1, path /,
\* HttpOnly, SameSite=Lax).
C6_GateDecides ==
    [][ \A r \in ReqIds : GateAnswers(r) =>
          LET sid == Unwrap(reqs[r].sid)
          IN  /\ (r \in DOMAIN reqs' /\ reqs'[r].admitted) => ValidRow(sessions, sid, now)
              /\ ~ValidRow(sessions, sid, now) =>
                    /\ r \notin DOMAIN reqs'
                    /\ ~last'.admitted
                    /\ last'.id = r
                    /\ last'.resp = Some(RemovalRedirect("/login"))
      ]_vars

\* C6 witness: the gate has denied, with the removal cookie, a request whose cookie
\* names a session row that has expired
C6_Witness ==
    /\ last.handler \in { "protected", "get_profile" }
    /\ last.resp = Some(RemovalRedirect("/login"))
    /\ \E s \in sessions : Some(s.session_id) = last.sid /\ s.expires_at <= now

ProtectedHandlers == { "protected", "get_profile" }

\* C7: sole gate.  A request of a protected route is handed to the UserProfile
\* extractor, and its handler (protected, get_profile) runs, only after
\* check_authenticated admitted this request.
C7_SoleGate ==
    /\ \A r \in ReqIds :
         (reqs[r].handler \in ProtectedHandlers /\ reqs[r].pc = "extract")
            => reqs[r].admitted
    /\ (last.handler \in ProtectedHandlers /\ last.ran) => last.admitted

\* C7 witness: get_profile has run for an admitted request
C7_Witness ==
    /\ last.handler = "get_profile"
    /\ last.ran
    /\ last.admitted

\* C8: a request the gate admitted is answered by its handler, run with the e-mail of
\* a user who owned the session row the gate matched (whenever the store answers the
\* extractor's query, whatever happened between the gate's lookup and that query).
C8_AdmittedRunsWithIdentity ==
    ( /\ last.handler \in ProtectedHandlers
      /\ last.admitted
      /\ Unwrap(last.resp).status /= 500 ) =>
        /\ last.ran
        /\ \E e \in last.matched : Unwrap(last.resp).identity = Some(e)

\* C9: every logout is answered with the removal cookie and the redirect to /.
C9_LogoutAlwaysClears ==
    last.handler = "logout" => last.resp = Some(RemovalRedirect("/"))

\* C10: a logout without a sid cookie, or whose sid names no session row, leaves the
\* sessions table as it is and is answered with the removal cookie and the redirect
\* to /.
C10_LogoutNoOp ==
    [][ ( /\ Returns
          /\ last'.handler = "logout"
          /\ (IsSome(last'.sid) => \A s \in sessions : s.session_id /= Unwrap(last'.sid)) )
        => /\ sessions' = sessions
           /\ last'.resp = Some(RemovalRedirect("/"))
      ]_vars

\* a request arrives in this step
Arrives == nextReq' = nextReq + 1

\* the request that arrives in this step, as it is after the step
Arrived == IF nextReq \in DOMAIN reqs' THEN reqs'[nextReq] ELSE last'

\* request r of a protected route runs in this step (in the gate or the extractor)
ProtectedRuns(r) ==
    /\ reqs[r].handler \in ProtectedHandlers
    /\ (r \notin DOMAIN reqs' \/ reqs'[r] /= reqs[r])

C26_GateNeverErrors ==
    [][ /\ (Arrives /\ Arrived.handler \in ProtectedHandlers) =>
               \/ /\ nextReq \in DOMAIN reqs'
                  /\ reqs'[nextReq].pc = "gate_query"
               \/ /\ nextReq \notin DOMAIN reqs'
                  /\ Unwrap(last'.resp).status = 303
                  /\ Unwrap(last'.resp).location = "/login"
        /\ \A r \in ReqIds : GateAnswers(r) =>
               \/ /\ r \in DOMAIN reqs'
                  /\ reqs'[r].admitted
                  /\ reqs'[r].pc = "extract"
               \/ /\ r \notin DOMAIN reqs'
                  /\ last'.id = r
                  /\ Unwrap(last'.resp).status = 303
                  /\ Unwrap(last'.resp).location = "/login"
                  /\ Unwrap(last'.resp).cookie = Some(RemovalCookie)
      ]_vars

\* the store failed the gate's lookup for a cookie whose session row is unexpired (no
\* login or logout came after it), and the request was answered with the redirect
\* to /login and the removal cookie
C26_Witness ==
    /\ last.handler \in ProtectedHandlers
    /\ IsSome(last.sid)
    /\ ~last.admitted
    /\ Unwrap(last.resp).status = 303
    /\ Unwrap(last.resp).cookie = Some(RemovalCookie)
    /\ ValidRow(sessions, Unwrap(last.sid), 0)
    /\ budget = 0
    /\ \A s \in sessions : s.expires_at > now

\* the rows a lookup of session id sid finds expired at time t
ExpiredRows(ss, sid, t) == { s \in ss : s.session_id = sid /\ s.expires_at <= t }

\* C27: session rows are deleted when found expired.  When the gate's lookup is
\* answered for a cookie whose session id has a row with an expiry at or before now,
\* that row is no longer in the sessions table after the step.
C27_ExpiredRowDeleted ==
    [][ \A r \in ReqIds : GateAnswers(r) =>
          \A s \in ExpiredRows(sessions, Unwrap(reqs[r].sid), now) : s \notin sessions'
      ]_vars

-----------------------------------------------------------------------------
(* Properties of the callbacks and of store_user_session (SpecCallback) *)

Callbacks == { "google_callback", "twitter_callback" }

\* the await points of store_user_session
StorePcs == { "upsert_user", "upsert_session" }

\* request r returns in this step
ReturnsNow(r) == r \in ReqIds /\ Returns /\ last'.id = r

DatabaseErrorResponse == Response(500, "Database error occurred", "", NoCookie, None)

\* C11: no cookie for a session that failed to persist.  A callback that returns a
\* sid cookie returns it from the sessions upsert, and the users table then holds the
\* user's row and the sessions table the row of that user with the cookie's session id;
\* a callback that returns from a store statement without having persisted the session
\* returns HTTP 500 without a cookie.
C11_CookieOnlyIfPersisted ==
    [][ \A r \in ReqIds : (reqs[r].handler \in Callbacks /\ ReturnsNow(r)) =>
          LET resp == Unwrap(last'.resp)
              persisted ==
                  /\ reqs[r].pc = "upsert_session"
                  /\ \E u \in users' :
                       /\ u.email = Unwrap(reqs[r].email)
                       /\ [user_id |-> u.id, session_id |-> Unwrap(reqs[r].sid),
                           expires_at |-> reqs[r].expires] \in sessions'
          IN  /\ IsSome(resp.cookie) =>
                    /\ persisted
                    /\ Unwrap(resp.cookie).value = Unwrap(reqs[r].sid)
              /\ (reqs[r].pc \in StorePcs /\ ~IsSome(resp.cookie)) =>
                    /\ resp = DatabaseErrorResponse
                    /\ UNCHANGED <<dbVars, issued>>
      ]_vars

\* C11 witness: the users upsert of a callback succeeded, its sessions upsert failed,
\* and the callback was answered 500 without a cookie
C11_Witness ==
    /\ last.handler \in Callbacks
    /\ last.resp = Some(DatabaseErrorResponse)
    /\ \E u \in users : u.email = Unwrap(last.email)
    /\ sessions = {}

\* the server has seen one request, which has ended (with a response, or dropped
\* when its client went away) without a session cookie
OneRequestEndedWithoutSession ==
    /\ nextReq = 2
    /\ reqs = << >>
    /\ last.id = 1 => ~IsSome(Unwrap(last.resp).cookie)

\* C12: session issuance is one unit of work.  A callback that fails or is dropped
\* before its sessions upsert succeeded leaves the store as it was before the call:
\* when it is the one request the server has seen, the users table and the sessions
\* table are as empty as they were at the start.
C12_UnitOfWork ==
    OneRequestEndedWithoutSession => (users = {} /\ sessions = {})

\* the await points of the provider calls
ProviderPcs == { "exchange", "userinfo" }

\* callback r, suspended on a provider call, ends in this step: the call failed and
\* the callback returns the error, or its client went away
EndsAtProvider(r) ==
    /\ reqs[r].handler \in Callbacks
    /\ reqs[r].pc \in ProviderPcs
    /\ r \notin DOMAIN reqs'

\* C13: a callback that fails or is dropped at the token exchange or at the identity
\* fetch changes no user row and no session row (so no token reaches the store), and
\* its response, if any, sets no cookie.
C13_ProviderFailureWritesNothing ==
    [][ \A r \in ReqIds : EndsAtProvider(r) =>
          /\ UNCHANGED <<users, sessions, issued>>
          /\ ReturnsNow(r) => ~IsSome(Unwrap(last'.resp).cookie)
      ]_vars

\* C13 witness: a twitter_callback got its token, failed at the identity fetch and
\* returned the error, and the store is empty
C13_Witness ==
    /\ last.handler = "twitter_callback"
    /\ IsSome(last.token)
    /\ ~IsSome(last.email)
    /\ IsSome(last.resp)
    /\ users = {} /\ sessions = {}

\* C14: a callback whose identity fetch fails is answered with HTTP 401.
C14_IdentityFetchUnauthorized ==
    [][ \A r \in ReqIds :
          (reqs[r].handler \in Callbacks /\ reqs[r].pc = "userinfo" /\ ReturnsNow(r))
              => Unwrap(last'.resp).status = 401
      ]_vars

\* C15: an empty identity is refused.  No user row (hence no session row) is ever
\* written for the empty e-mail, and a callback whose provider returned the empty
\* e-mail returns no sid cookie.
C15_NoEmptyIdentity ==
    /\ \A u \in users : u.email /= EmptyStr
    /\ (last.handler \in Callbacks /\ last.email = Some(EmptyStr))
           => ~IsSome(Unwrap(last.resp).cookie)

AuthenticationFailedResponse == Response(401, "Authentication failed", "", NoCookie, None)

\* C21: a token-exchange failure leaks nothing of the provider's error.  Whatever the
\* token endpoint's error response or the transport error was, a callback that returns
\* from the token exchange returns HTTP 401 with the body "Authentication failed" and
\* no cookie, and the step changes no user row, no session row and issues no cookie.
C21_TokenFailureGeneric ==
    [][ \A r \in ReqIds :
          (reqs[r].handler \in Callbacks /\ reqs[r].pc = "exchange" /\ ReturnsNow(r)) =>
              /\ last'.resp = Some(AuthenticationFailedResponse)
              /\ UNCHANGED <<users, sessions, issued>>
      ]_vars

\* a callback has failed at the token exchange and returned the generic response,
\* while the store holds the session of an earlier login
C21_Witness ==
    /\ last.handler \in Callbacks
    /\ ~IsSome(last.token)
    /\ last.resp = Some(AuthenticationFailedResponse)
    /\ sessions /= {}

\* the callbacks in flight and the one that returned last
SeenCallbacks ==
    { q \in { reqs[r] : r \in ReqIds } \cup { last } : q.handler \in Callbacks }

Count(seq, x) == Cardinality({ i \in DOMAIN seq : seq[i] = x })

\* C29: no automatic retries.  A callback has sent at most one token request, at most
\* one user-info request and each of the two store statements at most once; it is
\* waiting for the answer of the request it sent last, or it has returned; and a
\* callback that returned an error sent nothing after the request that failed: what
\* it sent is the sequence of the calls up to that one.
C29_NoRetries ==
    \A q \in SeenCallbacks :
        LET calls == <<"exchange", "userinfo", "upsert_user", "upsert_session">>
        IN  /\ \A c \in { "exchange", "userinfo", "upsert_user", "upsert_session" } :
                  Count(q.sent, c) <= 1
            /\ Len(q.sent) <= 4
            /\ q.sent = SubSeq(calls, 1, Len(q.sent))
            /\ (q.pc /= "done" /\ q.sent /= <<>>) => q.pc = q.sent[Len(q.sent)]
            /\ (q.pc = "done" /\ Unwrap(q.resp).status = 303) => Len(q.sent) = 4

\* a twitter_callback whose users upsert failed has returned the error, having sent
\* the token request, the user-info request and the users upsert once each
C29_Witness ==
    /\ last.handler = "twitter_callback"
    /\ Unwrap(last.resp).status = 500
    /\ last.sent = <<"exchange", "userinfo", "upsert_user">>

\* a request without the parts in which two requests for one URL can differ
Erased(q) == [q EXCEPT !.id = 0, !.state = None]

\* two callbacks in flight that differ in their `state` parameter only
Twins(r1, r2) ==
    /\ reqs[r1].handler \in Callbacks
    /\ Erased(reqs[r1]) = Erased(reqs[r2])
    /\ reqs[r1].state /= reqs[r2].state

\* callback r runs from the await it is suspended on to the next, or to its return
Advances(r) ==
    \/ TwitterCallbackLock(r)
    \/ TokenExchange(r)
    \/ UserInfo(r)
    \/ UpsertUserStep(r)
    \/ UpsertSessionStep(r)

StoreChanges == <<users', sessions', issued'>> /= <<users, sessions, issued>>

\* callback r can go on to the await `pc`, changing the store or not
CanGoOn(r, pc, changes) ==
    ENABLED ( /\ Advances(r)
              /\ r \in DOMAIN reqs'
              /\ reqs'[r].pc = pc
              /\ StoreChanges = changes )

\* callback r can return the status `status`, changing the store or not
CanReturn(r, status, changes) ==
    ENABLED ( /\ Advances(r)
              /\ r \notin DOMAIN reqs'
              /\ Unwrap(last'.resp).status = status
              /\ StoreChanges = changes )

\* a callback with the `state` st can arrive and reach the await `pc`
CanArriveWith(handler, st, pc) ==
    ENABLED ( /\ GoogleCallbackStart \/ TwitterCallbackStart(0)
              /\ nextReq \in DOMAIN reqs'
              /\ reqs'[nextReq].handler = handler
              /\ reqs'[nextReq].state = st
              /\ reqs'[nextReq].pc = pc )

TwitterProfiles ==
    { q \in { reqs[r] : r \in ReqIds } \cup { last } :
        q.handler = "twitter_callback" /\ IsSome(q.username) }

\* C22: Twitter identity synthesis is deterministic.  The identity a twitter_callback
\* has derived is its profile's username followed by "@twitter.local", whatever the
\* username holds ('@', '.', nothing), and two twitter_callbacks with the same
\* username have derived the same identity.
C22_TwitterIdentity ==
    /\ \A q \in TwitterProfiles :
          q.email = Some(Unwrap(q.username) \o
                         <<"@", "t", "w", "i", "t", "t", "e", "r", ".", "l", "o", "c", "a", "l">>)
    /\ \A q1, q2 \in TwitterProfiles :
          q1.username = q2.username => q1.email = q2.email

\* a twitter_callback has derived the identity of the username "u@x" and is inside
\* store_user_session, and the users table holds the row an earlier twitter_callback
\* wrote for the same identity
C22_Witness ==
    \E r \in ReqIds :
        /\ reqs[r].handler = "twitter_callback"
        /\ reqs[r].username = Some(<<"u", "@", "x">>)
        /\ reqs[r].pc = "upsert_user"
        /\ \E u \in users : Some(u.email) = reqs[r].email

\* the callbacks that have computed a session id: those inside store_user_session and
\* the one that returned last
ComputedSessionIds ==
    { q \in { reqs[r] : r \in ReqIds } \cup { last } :
        q.handler \in Callbacks /\ IsSome(q.sid) }

\* C19: the session id binds identity and token secret.  Two callbacks whose
\* (identity, token secret) pairs differ have computed different session ids.
C19_SessionIdInjective ==
    \A q1, q2 \in ComputedSessionIds :
        <<Unwrap(q1.email), Unwrap(q1.token).secret>>
            /= <<Unwrap(q2.email), Unwrap(q2.token).secret>>
        => Unwrap(q1.sid) /= Unwrap(q2.sid)

\* str::contains
Contains(s, sub) ==
    \E i \in 1..(Len(s) - Len(sub) + 1) : SubSeq(s, i, i + Len(sub) - 1) = sub

\* C20: the access token is never persisted verbatim.  After a login, no session id
\* in the sessions table, no e-mail in the users table and no value of a cookie the
\* server sent contains the access-token secret of that login.
C20_TokenNeverPersisted ==
    (last.handler \in Callbacks /\ IsSome(last.resp) /\ Unwrap(last.resp).status = 303) =>
        LET secret == Unwrap(last.token).secret
        IN  /\ \A s \in sessions : ~Contains(s.session_id, secret)
            /\ \A u \in users : ~Contains(u.email, secret)
            /\ \A c \in issued : ~Contains(c.value, secret)
            /\ ~Contains(Unwrap(Unwrap(last.resp).cookie).value, secret)

-----------------------------------------------------------------------------
(* Logout and the gate (SpecLogout) *)

HasRow(ss, sid) == \E s \in ss : s.session_id = sid

\* C28: a logged-out session is denied until it is stored again.  When a logout that
\* presented session id S returns after the store executed its DELETE, the sessions
\* table holds no row with S; a row with a session id the table did not hold appears
\* only in the step in which a login returns its cookie for that session id; and
\* whenever the gate's lookup is answered while the table holds no row with the
\* cookie's session id, the request is denied and its handler does not run.
C28_DeniedAfterLogout ==
    [][ /\ \A r \in ReqIds :
               (reqs[r].handler = "logout" /\ ReturnsNow(r) /\ last'.deleted)
                   => ~HasRow(sessions', Unwrap(reqs[r].sid))
        /\ \A s \in sessions' :
               ~HasRow(sessions, s.session_id) =>
                   /\ LoginSucceeds
                   /\ last'.sid = Some(s.session_id)
        /\ \A r \in ReqIds :
               (GateAnswers(r) /\ ~HasRow(sessions, Unwrap(reqs[r].sid)))
                   => (r \notin DOMAIN reqs' /\ last'.id = r /\ ~last'.admitted /\ ~last'.ran)
      ]_vars

\* a logout deleted the row of session id S, and a request for a protected route that
\* arrived afterwards with the cookie of S was denied by the gate
C28_Witness ==
    /\ last.handler \in ProtectedHandlers
    /\ IsSome(last.sid)
    /\ ~last.admitted
    /\ Unwrap(last.resp).cookie = Some(RemovalCookie)
    /\ sessions = {}
    /\ last.id = 3
    /\ budget = 0
    /\ reqs = << >>

\* C36: the frame of logout.  In the step in which a logout that presented session id
\* S returns, every session row that disappears carries S and no row appears or
\* changes; the rows that disappear belong to one user, so that the rows of all other
\* users are unchanged; the users table and the PKCE store are unchanged.  This holds
\* also when a login of the same user replaced S before the DELETE ran.
C36_LogoutFrame ==
    [][ \A r \in ReqIds : (reqs[r].handler = "logout" /\ ReturnsNow(r)) =>
          /\ sessions' \subseteq sessions
          /\ \A s \in sessions \ sessions' : s.session_id = Unwrap(reqs[r].sid)
          /\ \A s1, s2 \in sessions \ sessions' : s1.user_id = s2.user_id
          /\ users' = users
          /\ verifiers' = verifiers
      ]_vars

-----------------------------------------------------------------------------
(* Sessions across restarts (SpecRestart) *)

\* a request for a protected route arrives in this step, presenting cookie c
ProtectedArrives(c) ==
    /\ nextReq' = nextReq + 1
    /\ \/ /\ nextReq \in DOMAIN reqs'
          /\ reqs'[nextReq].handler \in ProtectedHandlers
          /\ reqs'[nextReq].cookie = Some(Cookie(c))
       \/ /\ last'.id = nextReq
          /\ last'.handler \in ProtectedHandlers
          /\ last'.cookie = Some(Cookie(c))

\* C17: the cookie key outlives the process.  A protected request that presents a
\* cookie the server issued (before a restart or after it), whose session row is
\* unexpired, reaches the gate's lookup with the cookie's session id: the gate reads
\* the cookie and does not turn the request away as one without a cookie.
C17_KeyStableAcrossRestarts ==
    [][ \A c \in issued :
          (ProtectedArrives(c) /\ ValidRow(sessions, c.value, now)) =>
              /\ nextReq \in DOMAIN reqs'
              /\ reqs'[nextReq].pc = "gate_query"
              /\ reqs'[nextReq].sid = Some(c.value)
      ]_vars

-----------------------------------------------------------------------------
(* Expiry of the session and of its cookie (SpecGate) *)

\* callback r enters store_user_session in this step
EntersStore(r) ==
    /\ r \in ReqIds
    /\ reqs[r].handler \in Callbacks
    /\ reqs[r].pc = "userinfo"
    /\ r \in DOMAIN reqs'
    /\ reqs'[r].pc = "upsert_user"

\* C18: expiry default and cookie max-age.  A callback that enters store_user_session
\* computes as the session's lifetime the seconds of the token response's expires_in,
\* or 3600 when the response omits it, and as the expiry the time of that moment plus
\* the lifetime; when it returns the session cookie, the user's sessions row carries
\* that expiry and the cookie's max-age is that lifetime.
C18_ExpiryAndMaxAge ==
    [][ \A r \in ReqIds :
          /\ EntersStore(r) =>
                LET hint == Unwrap(reqs[r].token).expires_in
                    lifetime == IF hint = None THEN 3600 ELSE hint[1]
                IN  /\ reqs'[r].secs = lifetime
                    /\ reqs'[r].expires = now + lifetime
          /\ (reqs[r].handler \in Callbacks /\ ReturnsNow(r) /\ LoginSucceeds) =>
                /\ Unwrap(Unwrap(last'.resp).cookie).max_age = reqs[r].secs
                /\ \E s \in sessions' :
                      /\ s.session_id = Unwrap(reqs[r].sid)
                      /\ s.expires_at = reqs[r].expires
      ]_vars

\* a login whose token response omitted expires_in, begun at time 1, has returned a
\* cookie of 3600 seconds, and its row expires at 3601
C18_Witness ==
    /\ last.handler = "google_callback"
    /\ IsSome(last.resp)
    /\ Unwrap(last.resp).status = 303
    /\ Unwrap(last.token).expires_in = None
    /\ Unwrap(Unwrap(last.resp).cookie).max_age = 3600
    /\ \E s \in sessions :
          /\ s.session_id = Unwrap(last.sid)
          /\ s.expires_at = 3601

\* C24: the gate on a request without a readable sid cookie.  A request for a
\* protected route that carries no cookie, or a cookie sealed under another key than
\* the process's, is answered at once with the redirect to /login and no Set-Cookie:
\* it never waits for a store lookup, and the users and sessions tables and the
\* cookies issued are unchanged.
C24_GateWithoutCookie ==
    [][ ( /\ Arrives
          /\ Arrived.handler \in ProtectedHandlers
          /\ (Arrived.cookie = None \/ Unwrap(Arrived.cookie).key /= key) )
        => /\ nextReq \notin DOMAIN reqs'
           /\ last'.id = nextReq
           /\ last'.resp = Some(Response(303, "", "/login", None, None))
           /\ ~last'.admitted
           /\ UNCHANGED <<users, sessions, issued>>
      ]_vars

\* after a restart a request for a protected route presented the cookie of an
\* unexpired session, sealed by the previous process, and was answered with the bare
\* redirect
C24_Witness ==
    /\ last.handler \in ProtectedHandlers
    /\ IsSome(last.cookie)
    /\ Unwrap(last.cookie).key /= key
    /\ last.resp = Some(Response(303, "", "/login", None, None))
    /\ ValidRow(sessions, Unwrap(last.cookie).value, now)

-----------------------------------------------------------------------------
(* The session id of an earlier login (SpecRelogin) *)

\* a login of the user `email` was answered with the cookie of session id `sid`, and
\* the user's session row now carries another session id: a later login of the user
\* replaced it (the row of a user is written by the logins of that user only)
Superseded(email, sid) ==
    /\ \E c \in issued : c.email = email /\ c.value = sid
    /\ \E s \in sessions :
         /\ s.user_id = UserIdOf(users, email)
         /\ s.session_id /= sid

\* C35: the session id of an earlier login is denied.  When the gate's lookup is
\* answered for a request that arrived with session id S after a later login of the
\* user S was issued to had replaced S by another session id, the request is answered
\* with the redirect to /login and the removal cookie.
C35_OldSessionDenied ==
    [][ \A r \in ReqIds :
          (GateAnswers(r) /\ \E email \in accounts : Superseded(email, Unwrap(reqs[r].sid)))
              => (r \notin DOMAIN reqs' /\ last'.id = r /\ last'.resp = Some(GateDenial))
      ]_vars

-----------------------------------------------------------------------------
(* The identities of the two providers (SpecProviders) *)

\* the provider a callback authenticates against
ProviderOf(handler) == IF handler = "twitter_callback" THEN "Twitter" ELSE "Google"

\* C37: the identities of the two providers are disjoint.  No login through
\* google_callback and login through twitter_callback were answered for the same
\* identity (they never share a user row), and when a protected page is shown for the
\* session of a login, the provider it shows for the identity is the provider the
\* login authenticated against.
C37_ProvidersDisjoint ==
    [][ /\ \A c1, c2 \in issued' : c1.handler /= c2.handler => c1.email /= c2.email
        /\ \A r \in ReqIds :
              (reqs[r].pc = "extract" /\ ReturnsNow(r) /\ last'.ran) =>
                  \A c \in issued :
                      (c.value = Unwrap(last'.sid) /\ c.email = Unwrap(last'.email))
                          => ProviderShown(Unwrap(last'.email)) = ProviderOf(c.handler)
      ]_vars

-----------------------------------------------------------------------------
(* The verifier of a callback that fails (SpecPkce) *)

\* twitter_callback r, which took a verifier from the store, returns an error in
\* this step
FailsAfterTaking(r) ==
    /\ reqs[r].handler = "twitter_callback"
    /\ reqs[r].pc \in ProviderPcs \cup StorePcs
    /\ ReturnsNow(r)
    /\ Unwrap(last'.resp).status /= 303

\* C31: the verifier is consumed also by a failing callback.  When a twitter_callback
\* that took a verifier returns an error (from the token exchange, the identity fetch
\* or a store statement), the PKCE store holds no verifier and the lock is free; a
\* verifier that was sent to the token endpoint is never in the store again; and a
\* twitter_callback that takes the lock while the store is empty returns 400
\* "Missing PKCE verifier".
C31_FailedCallbackConsumes ==
    [][ /\ \A r \in ReqIds : FailsAfterTaking(r) =>
               /\ ~HasVerifier(verifiers')
               /\ lockOwner' = 0
        /\ \A e \in exchanges' :
               HasVerifier(verifiers') => verifiers'[VerifierKey] /= e.verifier
        /\ \A r \in ReqIds : (CallbackLocks(r) /\ ~HasVerifier(verifiers)) =>
               /\ r \notin DOMAIN reqs'
               /\ Unwrap(last'.resp).status = 400
               /\ Unwrap(last'.resp).body = "Missing PKCE verifier"
      ]_vars

\* the callback of a login attempt failed after taking the verifier; the callback
\* was repeated for the same attempt without a new twitter_login and was answered
\* 400 "Missing PKCE verifier"; no session exists
C31_Witness ==
    /\ last.handler = "twitter_callback"
    /\ last.resp = Some(MissingVerifierResponse)
    /\ last.attempt /= 0
    /\ \E e \in exchanges : e.attempt = last.attempt /\ e.req < last.id
    /\ Cardinality(attempts) = 1
    /\ restarts = 0
    /\ sessions = {}
    /\ reqs = << >>

\* C32: a twitter_callback that finds no verifier.  When a twitter_callback takes the
\* lock while the store holds no verifier, it returns 400 "Missing PKCE verifier"
\* without a cookie in that same step: it has sent no request to the provider or the
\* store, the PKCE store, the users table, the sessions table and the cookies issued
\* are unchanged, and the lock is free.
C32_MissingVerifierNoEffect ==
    [][ \A r \in ReqIds : (CallbackLocks(r) /\ ~HasVerifier(verifiers)) =>
          /\ r \notin DOMAIN reqs'
          /\ last'.id = r
          /\ last'.resp = Some(Response(400, "Missing PKCE verifier", "", None, None))
          /\ last'.sent = <<>>
          /\ exchanges' = exchanges
          /\ verifiers' = verifiers
          /\ UNCHANGED <<users, sessions, issued>>
          /\ lockOwner' = 0
      ]_vars

\* a twitter_callback was answered 400 without having sent anything, the lock is
\* free, and a twitter_login that waited for the lock can take it
C32_Witness ==
    /\ last.handler = "twitter_callback"
    /\ Unwrap(last.resp).status = 400
    /\ last.sent = <<>>
    /\ lockOwner = 0
    /\ \E r \in ReqIds :
          /\ reqs[r].handler = "twitter_login"
          /\ reqs[r].pc = "lock"
          /\ r < last.id

\* C34: ordering of initiation.  In the step in which a twitter_login returns its
\* redirect the store holds this login's verifier; so no login whose redirect a
\* client has received is still waiting to insert, and a twitter_callback for a
\* login attempt takes the lock only after that attempt's insert.  The same in both
\* builds.
C34_InsertBeforeRedirect ==
    [][ /\ \A r \in ReqIds : (reqs[r].handler = "twitter_login" /\ ReturnsNow(r)) =>
               /\ Unwrap(last'.resp).status = 303
               /\ HasVerifier(verifiers')
               /\ verifiers'[VerifierKey] = reqs[r].verifier
        /\ \A a \in Initiated : a \notin ReqIds
        /\ \A r \in ReqIds : (CallbackLocks(r) /\ reqs[r].attempt /= 0) =>
               /\ reqs[r].attempt \in Initiated
               /\ reqs[r].attempt \notin ReqIds
      ]_vars

\* in the build of main.rs, the callback of a login attempt, issued after the
\* redirect, found the verifier of its own attempt
C34_Witness ==
    /\ build = "main"
    /\ \E e \in exchanges :
          /\ e.attempt \in Initiated
          /\ e.verifier = AttemptVerifier(e.attempt)

-----------------------------------------------------------------------------
(* Progress of the callbacks (SpecLive) *)

\* C16: every callback that waits for a provider (for the token endpoint, or for the
\* user-info endpoint) eventually returns a response, also when the provider never
\* answers.
C16_ProviderCallsBounded ==
    \A r \in 1..LiveRequests :
        (r \in ReqIds /\ reqs[r].handler \in Callbacks /\ reqs[r].pc \in ProviderPcs)
            ~> (last.id = r)

\* C33: progress of Twitter logins.  Every twitter_login request eventually takes the
\* PKCE lock, stores its verifier and returns, whether or not the provider ever
\* answers the calls of the twitter_callbacks in flight.
C33_LoginProgress ==
    \A r \in 1..LiveRequests :
        (r \in ReqIds /\ reqs[r].handler = "twitter_login")
            ~> (r \notin ReqIds /\ \E a \in attempts : a.id = r)

====
